---- MODULE Spec2Model ----
(***************************************************************************)
(* Model of roost/data.py: the CompositionData dataset (graph builder      *)
(* behind functools.lru_cache), collate_batch, AverageMeter and            *)
(* Normalizer.                                                             *)
(*                                                                         *)
(* Tensors and Python lists are sequences; index values are 0-based as in  *)
(* the source, positions in a sequence are 1-based.  Row indices (the idx  *)
(* given to df.iloc) are 0-based.                                          *)
(***************************************************************************)
EXTENDS Integers, Sequences, FiniteSets, TLC

\* ---------------------------------------------------------------- bounds
NRows == 2          \* rows of the table read by pd.read_csv
MaxM == 3           \* elements known to the featuriser = largest graph
MaxCalls == 2       \* times the body of __getitem__ may run for one idx
MaxBatch == 2       \* longest dataset_list given to collate_batch

VARIABLES
    df,         \* CompositionData.df: idx -> row (cry_id, composition, target)
    cache,      \* the lru_cache of __getitem__: idx -> stored result or NoItem
    builds,     \* ghost: idx -> number of times the body of __getitem__ ran
    returned,   \* ghost: idx -> the outcomes dataset[idx] has had so far
    call,       \* ghost: the last call made, with its argument
    ret,        \* what the last call returned or raised
    val, avg, sum, count,   \* the fields of one AverageMeter
    updates,    \* ghost: the (val, n) of each update since the last reset
    raised,     \* ghost: whether the last AverageMeter call raised
    mean, std,  \* the fields of one Normalizer
    sample,     \* ghost: the tensor last given to Normalizer.fit
    x, normed, denormed     \* a tensor entry, its norm() and the denorm() of that

dataVars == <<df, cache, builds, returned, call, ret>>
meterVars == <<val, avg, sum, count, updates, raised>>
normVars == <<mean, std, sample, x, normed, denormed>>
vars == <<dataVars, meterVars, normVars>>

RowIdx == 0..(NRows - 1)
NoItem == [kind |-> "none"]

\* ------------------------------------------------ external collaborators
\* Element symbols are modelled by their atomic number; Unknown is a symbol
\* the feature table does not hold.
Unknown == 0
Known == 1..MaxM

\* A composition string, as the token list the parser reads from it: each
\* element once, with its amount.  The rows of a table are drawn from the
\* compositions of the first M known elements (amounts 1..M), and from
\* those of the first M-1 known elements followed by the unknown one.
Prefix(M) == [k \in 1..M |-> [el |-> k, amt |-> k]]
Formulas ==
    {Prefix(M) : M \in 1..MaxM}
    \cup {Append(Prefix(M - 1), [el |-> Unknown, amt |-> 1]) : M \in 1..MaxM}

\* roost.parse.parse: composition -> (elements, weights), order kept.
parse(composition) ==
    [elements |-> [k \in DOMAIN composition |-> composition[k].el],
     weights  |-> [k \in DOMAIN composition |-> composition[k].amt]]

\* LoadFeaturiser.get_fea: asserts the element is in the table, then
\* returns its embedding (one-hot here).
get_fea(element) ==
    [ok  |-> element \in Known,
     fea |-> [d \in 1..MaxM |-> IF d = element THEN 1 ELSE 0]]

\* ------------------------------------------------------------- helpers
RECURSIVE SumSeq(_)
SumSeq(s) == IF s = <<>> THEN 0 ELSE Head(s) + SumSeq(Tail(s))

RECURSIVE Flatten(_)
Flatten(list) == IF list = <<>> THEN <<>> ELSE Head(list) \o Flatten(Tail(list))

\* ------------------------------------------- CompositionData.__getitem__
\* weights = np.atleast_2d(weights).T / np.sum(weights): one row per
\* element, each the exact quotient <<numerator, denominator>>.
NormaliseWeights(weights) ==
    [k \in DOMAIN weights |-> <<weights[k], SumSeq(weights)>>]

\* the condition of "assert len(elements) != 1"
PureCheckOff(elements) == TRUE
PureCheck(elements) == Len(elements) /= 1

\* np.vstack([get_fea(element) for element in elements]) inside
\* try/except AssertionError: any failed lookup aborts the stacking.
StackFeaturesSkipUnknown(elements) ==
    LET keep == {k \in DOMAIN elements : get_fea(elements[k]).ok}
        F[k \in 0..Len(elements)] ==
            IF k = 0 THEN <<>>
            ELSE IF k \in keep THEN Append(F[k - 1], get_fea(elements[k]).fea)
                 ELSE F[k - 1]
    IN  [ok |-> TRUE, fea |-> F[Len(elements)]]
StackFeatures(elements) ==
    [ok  |-> \A k \in DOMAIN elements : get_fea(elements[k]).ok,
     fea |-> [k \in DOMAIN elements |-> get_fea(elements[k]).fea]]

\* env_idx[:i] + env_idx[i+1:]
NbrsKeepSelf(env_idx, i) ==
    SubSeq(env_idx, 1, i) \o SubSeq(env_idx, i + 1, Len(env_idx) - 1)
Nbrs(env_idx, i) ==
    SubSeq(env_idx, 1, i) \o SubSeq(env_idx, i + 2, Len(env_idx))

\* the loop "for i, _ in enumerate(elements)" from iteration i on
RECURSIVE EdgeLoop(_, _, _, _)
EdgeLoop(i, env_idx, self_fea_idx, nbr_fea_idx) ==
    IF i >= Len(env_idx)
    THEN [self_fea_idx |-> self_fea_idx, nbr_fea_idx |-> nbr_fea_idx]
    ELSE LET nbrs == Nbrs(env_idx, i)
         IN  EdgeLoop(i + 1, env_idx,
                      self_fea_idx \o [k \in 1..Len(nbrs) |-> i],
                      nbr_fea_idx \o nbrs)

\* The body of __getitem__: what it returns or raises for row idx.
getitem(table, idx) ==
    LET row      == table[idx]
        parsed   == parse(row.composition)
        elements == parsed.elements
        weights  == NormaliseWeights(parsed.weights)
        stacked  == StackFeatures(elements)
        env_idx  == [k \in 1..Len(elements) |-> k - 1]
        edges    == EdgeLoop(0, env_idx, <<>>, <<>>)
    IN  IF ~PureCheck(elements) THEN [kind |-> "AssertionError"]
        ELSE IF ~stacked.ok THEN [kind |-> "SystemExit"]
        ELSE [kind         |-> "item",
              atom_weights |-> weights,
              atom_fea     |-> stacked.fea,
              self_fea_idx |-> edges.self_fea_idx,
              nbr_fea_idx  |-> edges.nbr_fea_idx,
              target       |-> <<row.target>>,
              composition  |-> row.composition,
              cry_id       |-> row.cry_id]

\* functools.lru_cache(maxsize=None): the stored result for idx, if any.
CacheLookupAlwaysMiss(store, idx) == [found |-> FALSE, value |-> NoItem]
CacheLookup(store, idx) ==
    [found |-> store[idx] /= NoItem, value |-> store[idx]]

\* ------------------------------------------------------- collate_batch
\* "tensor + cry_base_idx": a new tensor; the operand (src) is left as is.
AddBaseInPlace(tensor, cry_base_idx) ==
    [out |-> [k \in DOMAIN tensor |-> tensor[k] + cry_base_idx],
     src |-> [k \in DOMAIN tensor |-> tensor[k] + cry_base_idx]]
AddBaseForgotten(tensor, cry_base_idx) ==
    [out |-> tensor, src |-> tensor]
AddBase(tensor, cry_base_idx) ==
    [out |-> [k \in DOMAIN tensor |-> tensor[k] + cry_base_idx],
     src |-> tensor]

\* torch.tensor([i]*n_i)
CrystalIdxPerEdge(i, item) == [k \in 1..Len(item.self_fea_idx) |-> i]
CrystalIdx(i, item) == [k \in 1..Len(item.atom_fea) |-> i]

\* torch.cat / torch.stack: refuse an empty list of tensors.
TorchCat(list) ==
    IF list = <<>> THEN [ok |-> FALSE, val |-> <<>>]
    ELSE [ok |-> TRUE, val |-> Flatten(list)]

EmptyLists ==
    [cry_base_idx       |-> 0,
     batch_atom_weights |-> <<>>,
     batch_atom_fea     |-> <<>>,
     batch_self_fea_idx |-> <<>>,
     batch_nbr_fea_idx  |-> <<>>,
     crystal_atom_idx   |-> <<>>,
     batch_target       |-> <<>>,
     batch_comp         |-> <<>>,
     batch_cry_ids      |-> <<>>,
     bases              |-> <<>>]

\* The for loop of collate_batch from position k of dataset_list on.  An
\* entry of dataset_list is the cached tuple itself, so it is held as the
\* idx of its cache entry and read through store.
RECURSIVE CollateLoop(_, _, _, _)
CollateLoop(store, dataset_list, k, acc) ==
    IF k > Len(dataset_list) THEN [store |-> store, lists |-> acc]
    ELSE
      LET i       == k - 1
          ref     == dataset_list[k]
          item    == store[ref]
          self    == AddBase(item.self_fea_idx, acc.cry_base_idx)
          nbr     == AddBase(item.nbr_fea_idx, acc.cry_base_idx)
          n_i     == Len(item.atom_fea)
          store2  == [store EXCEPT ![ref] =
                        [item EXCEPT !.self_fea_idx = self.src,
                                     !.nbr_fea_idx = nbr.src]]
          acc2    ==
            [cry_base_idx       |-> acc.cry_base_idx + n_i,
             batch_atom_weights |-> Append(acc.batch_atom_weights, item.atom_weights),
             batch_atom_fea     |-> Append(acc.batch_atom_fea, item.atom_fea),
             batch_self_fea_idx |-> Append(acc.batch_self_fea_idx, self.out),
             batch_nbr_fea_idx  |-> Append(acc.batch_nbr_fea_idx, nbr.out),
             crystal_atom_idx   |-> Append(acc.crystal_atom_idx, CrystalIdx(i, item)),
             batch_target       |-> Append(acc.batch_target, item.target),
             batch_comp         |-> Append(acc.batch_comp, item.composition),
             batch_cry_ids      |-> Append(acc.batch_cry_ids, item.cry_id),
             bases              |-> Append(acc.bases, acc.cry_base_idx)]
      IN  CollateLoop(store2, dataset_list, k + 1, acc2)

\* collate_batch(dataset_list): the value returned or the error raised, the
\* store afterwards, and the values cry_base_idx took at each iteration.
collate_batch(store, dataset_list) ==
    LET done  == CollateLoop(store, dataset_list, 1, EmptyLists)
        l     == done.lists
        w     == TorchCat(l.batch_atom_weights)
        f     == TorchCat(l.batch_atom_fea)
        s     == TorchCat(l.batch_self_fea_idx)
        n     == TorchCat(l.batch_nbr_fea_idx)
        c     == TorchCat(l.crystal_atom_idx)
        t     == TorchCat(l.batch_target)
        allok == w.ok /\ f.ok /\ s.ok /\ n.ok /\ c.ok /\ t.ok
    IN  [store |-> done.store,
         bases |-> l.bases,
         ret   |-> IF ~allok THEN [kind |-> "RuntimeError"]
                   ELSE [kind             |-> "batch",
                         atom_weights     |-> w.val,
                         atom_fea         |-> f.val,
                         self_fea_idx     |-> s.val,
                         nbr_fea_idx      |-> n.val,
                         crystal_atom_idx |-> c.val,
                         target           |-> l.batch_target,
                         comp             |-> l.batch_comp,
                         cry_ids          |-> l.batch_cry_ids]]


\* ------------------------------------------------------- AverageMeter
RECURSIVE GCD(_, _)
GCD(a, b) == IF b = 0 THEN a ELSE GCD(b, a % b)

Abs(a) == IF a < 0 THEN -a ELSE a

\* A Python or torch float: a finite value n/d in lowest terms with d > 0
\* (rounding is abstracted away), an infinity of sign n, or NaN.
NaN == [k |-> "nan", n |-> 0, d |-> 1]
Inf(sign) == [k |-> "inf", n |-> sign, d |-> 1]
Rat(n, d) ==
    LET g == GCD(Abs(n), Abs(d))
        s == IF d < 0 THEN -1 ELSE 1
    IN  [k |-> "num", n |-> (s * n) \div g, d |-> (s * d) \div g]
Sign(a) == IF a.n < 0 THEN -1 ELSE IF a.n > 0 THEN 1 ELSE 0

\* AverageMeter.reset
MeterReset == [val |-> 0, avg |-> Rat(0, 1), sum |-> 0, count |-> 0,
               raised |-> FALSE]

\* AverageMeter.update(val, n): the fields afterwards; the division of the
\* last line raises ZeroDivisionError when count is 0, after val, sum and
\* count have been assigned.
MeterUpdateAvgOverN(m, v, n) ==
    [val    |-> v,
     sum    |-> m.sum + v * n,
     count  |-> m.count + n,
     avg    |-> IF m.count + n = 0 \/ n = 0 THEN m.avg
                ELSE Rat(m.sum + v * n, n),
     raised |-> (m.count + n = 0)]
MeterUpdate(m, v, n) ==
    [val    |-> v,
     sum    |-> m.sum + v * n,
     count  |-> m.count + n,
     avg    |-> IF m.count + n = 0 THEN m.avg
                ELSE Rat(m.sum + v * n, m.count + n),
     raised |-> (m.count + n = 0)]

\* ---------------------------------------------------------- Normalizer
FNeg(a) == [a EXCEPT !.n = -a.n]

FAdd(a, b) ==
    IF a.k = "nan" \/ b.k = "nan" THEN NaN
    ELSE IF a.k = "inf" /\ b.k = "inf" THEN (IF a.n = b.n THEN a ELSE NaN)
    ELSE IF a.k = "inf" THEN a
    ELSE IF b.k = "inf" THEN b
    ELSE Rat(a.n * b.d + b.n * a.d, a.d * b.d)

FSub(a, b) == FAdd(a, FNeg(b))

FMul(a, b) ==
    IF a.k = "nan" \/ b.k = "nan" THEN NaN
    ELSE IF a.k = "inf" \/ b.k = "inf"
         THEN (IF Sign(a) * Sign(b) = 0 THEN NaN ELSE Inf(Sign(a) * Sign(b)))
    ELSE Rat(a.n * b.n, a.d * b.d)

FDiv(a, b) ==
    IF a.k = "nan" \/ b.k = "nan" THEN NaN
    ELSE IF a.k = "inf"
         THEN (IF b.k = "inf" THEN NaN
               ELSE Inf(IF Sign(b) < 0 THEN -a.n ELSE a.n))
    ELSE IF b.k = "inf" THEN Rat(0, 1)
    ELSE IF b.n = 0 THEN (IF a.n = 0 THEN NaN ELSE Inf(Sign(a)))
    ELSE Rat(a.n * b.d, a.d * b.n)

RECURSIVE FSum(_)
FSum(s) == IF s = <<>> THEN Rat(0, 1) ELSE FAdd(Head(s), FSum(Tail(s)))

\* torch.mean(tensor, dim=0)
TorchMean(tensor) == FDiv(FSum(tensor), Rat(Len(tensor), 1))

\* the square root of a finite v >= 0, rounded down to a multiple of
\* 1/Scale (the rounding of the floating-point square root)
Scale == 10
MaxTarget == 2
Sqrt(v) ==
    LET q == (v.n * Scale * Scale) \div v.d
        r == CHOOSE r \in 0..((MaxTarget + 1) * Scale) :
                r * r <= q /\ q < (r + 1) * (r + 1)
    IN  Rat(r, Scale)

\* torch.std(tensor, dim=0): the unbiased estimate, NaN for one entry
TorchStd(tensor) ==
    LET m  == TorchMean(tensor)
        sq == [i \in DOMAIN tensor |-> FMul(FSub(tensor[i], m), FSub(tensor[i], m))]
    IN  IF Len(tensor) <= 1 THEN NaN
        ELSE Sqrt(FDiv(FSum(sq), Rat(Len(tensor) - 1, 1)))

\* Normalizer.norm and Normalizer.denorm on one entry, given mean and std
norm(tensor, m, s) == FDiv(FSub(tensor, m), s)

denormNoMean(normed_tensor, m, s) == FMul(normed_tensor, s)
denorm(normed_tensor, m, s) == FAdd(FMul(normed_tensor, s), m)

\* ------------------------------------------------------ dataset actions
Tables ==
    {[i \in RowIdx |-> [cry_id |-> i + 1, composition |-> f[i], target |-> i]] :
        f \in [RowIdx -> Formulas]}

MaxUpdates == 3     \* updates of the AverageMeter between two resets
MaxVal == 2         \* largest val given to AverageMeter.update
MaxWeight == 2      \* largest n given to AverageMeter.update
MaxSample == 2      \* longest tensor given to Normalizer.fit

Unset == [k |-> "unset", n |-> 0, d |-> 1]
NoCall == [op |-> "init", arg |-> <<>>, hit |-> FALSE, bases |-> <<>>]

\* One dataset over any table of NRows rows, nothing fetched yet; beside it
\* a fresh AverageMeter (__init__ calls reset) and a fresh Normalizer
\* (mean = torch.tensor(0), std = torch.tensor(1)).
InitData ==
    /\ df \in Tables
    /\ cache = [i \in RowIdx |-> NoItem]
    /\ builds = [i \in RowIdx |-> 0]
    /\ returned = [i \in RowIdx |-> {}]
    /\ call = NoCall
    /\ ret = NoItem
    /\ val = MeterReset.val /\ avg = MeterReset.avg /\ sum = MeterReset.sum
    /\ count = MeterReset.count /\ raised = MeterReset.raised
    /\ updates = <<>>
    /\ mean = Rat(0, 1) /\ std = Rat(1, 1) /\ sample = <<>>
    /\ x = Unset /\ normed = Unset /\ denormed = Unset

\* A fresh AverageMeter and a fresh Normalizer, no dataset constructed.
InitObjects ==
    /\ df = <<>> /\ cache = <<>> /\ builds = <<>> /\ returned = <<>>
    /\ call = NoCall
    /\ ret = NoItem
    /\ val = MeterReset.val /\ avg = MeterReset.avg /\ sum = MeterReset.sum
    /\ count = MeterReset.count /\ raised = MeterReset.raised
    /\ updates = <<>>
    /\ mean = Rat(0, 1) /\ std = Rat(1, 1) /\ sample = <<>>
    /\ x = Unset /\ normed = Unset /\ denormed = Unset

\* dataset[idx] through the lru_cache wrapper: a stored result is returned
\* as it is; otherwise the body runs and what it returns is stored (an
\* exception is not).
Get(idx) ==
    LET hit == CacheLookup(cache, idx)
        r   == getitem(df, idx)
    IN  /\ call' = [op |-> "get", arg |-> idx, hit |-> hit.found,
                    bases |-> <<>>]
        /\ IF hit.found
           THEN /\ ret' = hit.value
                /\ UNCHANGED <<cache, builds>>
           ELSE /\ builds[idx] < MaxCalls
                /\ builds' = [builds EXCEPT ![idx] = @ + 1]
                /\ ret' = r
                /\ cache' = IF r.kind = "item"
                            THEN [cache EXCEPT ![idx] = r] ELSE cache
        /\ returned' = [returned EXCEPT ![idx] = @ \cup {ret'}]
        /\ UNCHANGED <<df, meterVars, normVars>>

Cached == {i \in RowIdx : cache[i] /= NoItem}
BatchLists == UNION {[1..n -> Cached] : n \in 0..MaxBatch}

\* collate_batch over items the data loader fetched from the dataset
Collate(dataset_list) ==
    LET out == collate_batch(cache, dataset_list)
    IN  /\ call' = [op |-> "collate_batch", arg |-> dataset_list,
                    hit |-> FALSE, bases |-> out.bases]
        /\ ret' = out.ret
        /\ cache' = out.store
        /\ UNCHANGED <<df, builds, returned, meterVars, normVars>>

NextData ==
    \/ \E idx \in RowIdx : Get(idx)
    \/ \E dataset_list \in BatchLists : Collate(dataset_list)

SpecData == InitData /\ [][NextData]_vars

\* ------------------------------------------------- AverageMeter actions
Meter == [val |-> val, avg |-> avg, sum |-> sum, count |-> count,
          raised |-> raised]

SetMeter(m) ==
    /\ val' = m.val
    /\ avg' = m.avg
    /\ sum' = m.sum
    /\ count' = m.count
    /\ raised' = m.raised

Reset ==
    /\ SetMeter(MeterReset)
    /\ updates' = <<>>
    /\ UNCHANGED <<dataVars, normVars>>

Update(v, n) ==
    /\ Len(updates) < MaxUpdates
    /\ SetMeter(MeterUpdate(Meter, v, n))
    /\ updates' = Append(updates, <<v, n>>)
    /\ UNCHANGED <<dataVars, normVars>>

NextMeter ==
    \/ Reset
    \/ \E v \in 0..MaxVal, n \in 0..MaxWeight : Update(v, n)

SpecMeter == InitObjects /\ [][NextMeter]_vars

\* --------------------------------------------------- Normalizer actions
Targets == {Rat(t, 1) : t \in 0..MaxTarget}
Samples == UNION {[1..n -> Targets] : n \in 1..MaxSample}
Entries == {Rat(v, 2) : v \in (-2)..(2 * MaxTarget + 2)}

\* Normalizer.fit(tensor)
Fit(tensor) ==
    /\ mean' = TorchMean(tensor)
    /\ std' = TorchStd(tensor)
    /\ sample' = tensor
    /\ x' = Unset
    /\ normed' = Unset
    /\ denormed' = Unset
    /\ UNCHANGED <<dataVars, meterVars>>

\* normed = normalizer.norm(x)
Norm(v) ==
    /\ x' = v
    /\ normed' = norm(v, mean, std)
    /\ denormed' = Unset
    /\ UNCHANGED <<mean, std, sample, dataVars, meterVars>>

\* denormed = normalizer.denorm(normed)
Denorm ==
    /\ normed /= Unset
    /\ denormed' = denorm(normed, mean, std)
    /\ UNCHANGED <<mean, std, sample, x, normed, dataVars, meterVars>>

NextNorm ==
    \/ \E tensor \in Samples : Fit(tensor)
    \/ \E v \in Entries : Norm(v)
    \/ Denorm

SpecNorm == InitObjects /\ [][NextNorm]_vars

\* =============================================================== claims
\* what the claims read off the last call
RowElements(idx) == parse(df[idx].composition).elements
HasUnknown(idx) == \E k \in DOMAIN RowElements(idx) : RowElements(idx)[k] \notin Known
DistinctElements(idx) == {RowElements(idx)[k] : k \in DOMAIN RowElements(idx)}

\* the ordered pair (i, j) at position p of the enumeration "i ascending,
\* within i every j /= i ascending", for M elements
PairAt(M, p) ==
    LET i == (p - 1) \div (M - 1)
        r == (p - 1) % (M - 1)
    IN  <<i, IF r < i THEN r ELSE r + 1>>

ItemAt(k) == cache[call.arg[k]]
AtomsOf(k) == Len(ItemAt(k).atom_fea)
EdgesOf(k) == Len(ItemAt(k).self_fea_idx)
RECURSIVE AtomsBefore(_)
AtomsBefore(k) == IF k <= 1 THEN 0 ELSE AtomsBefore(k - 1) + AtomsOf(k - 1)
RECURSIVE EdgesBefore(_)
EdgesBefore(k) == IF k <= 1 THEN 0 ELSE EdgesBefore(k - 1) + EdgesOf(k - 1)
Collated == call.op = "collate_batch" /\ call.arg /= <<>>

\* C2: in a batch of a non-empty list, every value item k contributes to
\* batch_self_index and batch_neighbor_index is its local index plus
\* offset_k (the atoms of the items before it) and lies in
\* [offset_k, offset_k + M_k); the offsets start at 0 and never decrease.
C2_OffsetCorrect ==
    Collated =>
      /\ ret.kind = "batch"
      /\ Len(ret.self_fea_idx) = EdgesBefore(Len(call.arg) + 1)
      /\ Len(ret.nbr_fea_idx) = EdgesBefore(Len(call.arg) + 1)
      /\ call.bases[1] = 0
      /\ \A k \in DOMAIN call.arg :
            /\ call.bases[k] = AtomsBefore(k)
            /\ k > 1 => call.bases[k] >= call.bases[k - 1]
            /\ \A p \in 1..EdgesOf(k) :
                  LET s == ret.self_fea_idx[EdgesBefore(k) + p]
                      n == ret.nbr_fea_idx[EdgesBefore(k) + p]
                  IN  /\ s = ItemAt(k).self_fea_idx[p] + AtomsBefore(k)
                      /\ n = ItemAt(k).nbr_fea_idx[p] + AtomsBefore(k)
                      /\ AtomsBefore(k) <= s /\ s < AtomsBefore(k) + AtomsOf(k)
                      /\ AtomsBefore(k) <= n /\ n < AtomsBefore(k) + AtomsOf(k)

\* C2 witness: a batch of two graphs of different sizes, the second shifted.
C2_Witness ==
    /\ Collated
    /\ Len(call.arg) = 2
    /\ AtomsOf(1) = 3 /\ AtomsOf(2) = 2
    /\ ret.kind = "batch"
    /\ ret.nbr_fea_idx = <<1, 2, 0, 2, 0, 1, 4, 3>>

C4_BodyAtMostOncePerIdx ==
    \A idx \in RowIdx :
        /\ builds[idx] <= 1
        /\ Cardinality(returned[idx]) <= 1

\* C4 amended: dataset[idx] always has the same outcome; for an idx whose
\* body returns, the body runs exactly once and every later call returns the
\* stored result; an idx whose body raises is never stored, so every call
\* for it runs the body again.
C4_SuccessfulBuildOnce ==
    \A idx \in RowIdx :
        /\ Cardinality(returned[idx]) <= 1
        /\ cache[idx] /= NoItem => builds[idx] = 1 /\ returned[idx] = {cache[idx]}
        /\ builds[idx] > 1 =>
              cache[idx] = NoItem /\ getitem(df, idx).kind /= "item"
        /\ (call.op = "get" /\ call.arg = idx) =>
              /\ ret \in returned[idx]
              /\ call.hit => ret.kind = "item" /\ ret = cache[idx]
              /\ ~call.hit => builds[idx] >= 1

\* C4 witness: a call served from the cache after the one build.
C4_Witness ==
    /\ call.op = "get"
    /\ call.hit
    /\ builds[call.arg] = 1
    /\ ret = cache[call.arg]
    /\ ret.kind = "item"

\* C5: dataset[idx] on a row with exactly one distinct element fails with
\* the pure-system assertion and returns no graph; every graph returned or
\* stored has M >= 2.
C5_PureSystemRejected ==
    /\ (call.op = "get" /\ Cardinality(DistinctElements(call.arg)) = 1)
          => ret.kind = "AssertionError" /\ cache[call.arg] = NoItem
    /\ (call.op = "get" /\ ret.kind = "item") => Len(ret.atom_fea) >= 2
    /\ \A idx \in RowIdx : cache[idx] /= NoItem => Len(cache[idx].atom_fea) >= 2

\* C5 witness: a row of one known element has been asked for and refused.
C5_Witness ==
    /\ call.op = "get"
    /\ Cardinality(DistinctElements(call.arg)) = 1
    /\ ~HasUnknown(call.arg)
    /\ ret.kind = "AssertionError"
    /\ builds[call.arg] >= 1

\* C6 as claimed: dataset[idx] on a row with an element absent from the
\* feature table always fails with the unknown-element error.
C6_UnknownElementError ==
    (call.op = "get" /\ HasUnknown(call.arg)) => ret.kind = "SystemExit"

\* C6 amended: such a row never yields a graph and nothing is stored for it;
\* it fails with the unknown-element exit (print, sys.exit) when it has two
\* or more elements, and with the pure-system assertion, which is checked
\* first, when the unknown element is its only one.
C6_UnknownElementFails ==
    /\ (call.op = "get" /\ HasUnknown(call.arg)) =>
          ret.kind = (IF Len(RowElements(call.arg)) = 1
                      THEN "AssertionError" ELSE "SystemExit")
    /\ \A idx \in RowIdx : HasUnknown(idx) => cache[idx] = NoItem

\* C6 witness: a row of a known and an unknown element ended in the exit.
C6_Witness ==
    /\ call.op = "get"
    /\ HasUnknown(call.arg)
    /\ Len(RowElements(call.arg)) >= 2
    /\ ret.kind = "SystemExit"

\* C7 as claimed: collate_batch of an empty list does not fail and gives an
\* empty Batch.
C7_EmptyListEmptyBatch ==
    (call.op = "collate_batch" /\ call.arg = <<>>) =>
      /\ ret.kind = "batch"
      /\ ret.atom_weights = <<>> /\ ret.atom_fea = <<>>
      /\ ret.self_fea_idx = <<>> /\ ret.nbr_fea_idx = <<>>
      /\ ret.crystal_atom_idx = <<>>
      /\ ret.comp = <<>> /\ ret.cry_ids = <<>>

\* a stored graph holds local indices only
LocalIndices(item) ==
    /\ \A p \in DOMAIN item.self_fea_idx :
          item.self_fea_idx[p] \in 0..(Len(item.atom_fea) - 1)
    /\ \A p \in DOMAIN item.nbr_fea_idx :
          item.nbr_fea_idx[p] \in 0..(Len(item.atom_fea) - 1)

\* C10: a cached graph is never changed by a later dataset[idx] or
\* collate_batch: whatever is stored for idx stays as stored, with its local
\* indices in [0, M).
C10_CacheNeverMutated ==
    [][\A idx \in RowIdx :
          cache[idx] /= NoItem =>
             cache'[idx] = cache[idx] /\ LocalIndices(cache'[idx])]_vars

\* C10 witness: one cached item collated twice in one batch, the second
\* time shifted, and the stored item still local.
C10_Witness ==
    /\ Collated
    /\ Len(call.arg) = 2
    /\ call.arg[1] = call.arg[2]
    /\ ret.kind = "batch"
    /\ ret.self_fea_idx = <<0, 1, 2, 3>>
    /\ cache[call.arg[1]].self_fea_idx = <<0, 1>>

\* the totals of the updates since the last reset
RECURSIVE WeightedSum(_)
WeightedSum(u) ==
    IF u = <<>> THEN 0 ELSE WeightedSum(Tail(u)) + Head(u)[1] * Head(u)[2]
RECURSIVE WeightSum(_)
WeightSum(u) == IF u = <<>> THEN 0 ELSE WeightSum(Tail(u)) + Head(u)[2]

ResetState == val = 0 /\ avg = Rat(0, 1) /\ sum = 0 /\ count = 0

\* C9 as claimed: after at least one update since the last reset, sum is
\* the total of value*weight, count the total weight, val the last value and
\* avg = sum / count; right after reset all four fields are 0.
C9_MeterTotals ==
    /\ updates = <<>> => ResetState
    /\ updates /= <<>> =>
          /\ sum = WeightedSum(updates)
          /\ count = WeightSum(updates)
          /\ val = updates[Len(updates)][1]
          /\ ~raised
          /\ count /= 0
          /\ avg.n * count = sum * avg.d

\* C9 amended: sum, count and val are as claimed after every update; avg is
\* sum / count whenever count is not 0; an update that leaves count at 0
\* (weight 0 on a meter whose count is 0) raises ZeroDivisionError after
\* setting val, sum and count, and avg keeps the value it had.
C9_MeterTotalsNonZeroCount ==
    /\ updates = <<>> => ResetState /\ ~raised
    /\ updates /= <<>> =>
          /\ sum = WeightedSum(updates)
          /\ count = WeightSum(updates)
          /\ val = updates[Len(updates)][1]
          /\ count /= 0 => ~raised /\ avg.k = "num" /\ avg.n * count = sum * avg.d
          /\ count = 0 => raised /\ avg = Rat(0, 1)

\* C9 witness: update(1, 2) then update(2, 1): sum 4, count 3, avg 4/3.
C9_Witness ==
    /\ updates = <<<<1, 2>>, <<2, 1>>>>
    /\ sum = 4 /\ count = 3 /\ val = 2
    /\ avg = Rat(4, 3)

\* C8 as claimed: in the initial state and after any fit, denorm(norm(x))
\* is x; in the initial state norm(x) is x.
C8_RoundTrip ==
    /\ denormed /= Unset => denormed = x
    /\ (sample = <<>> /\ normed /= Unset) => normed = x

\* C8 amended: denorm(norm(x)) is x in the initial state and after any fit
\* that leaves std finite and not 0; in the initial state norm(x) is x.  A
\* fit on one target (std NaN) or on equal targets (std 0) makes
\* denorm(norm(x)) NaN.
C8_RoundTripNonZeroStd ==
    /\ (denormed /= Unset /\ std.k = "num" /\ std.n /= 0) => denormed = x
    /\ (denormed /= Unset /\ ~(std.k = "num" /\ std.n /= 0)) => denormed = NaN
    /\ (sample = <<>> /\ normed /= Unset) => normed = x
    /\ sample = <<>> => mean = Rat(0, 1) /\ std = Rat(1, 1)
    /\ Len(sample) = 1 => std = NaN
    /\ (Len(sample) >= 2 /\ \A i \in DOMAIN sample : sample[i] = sample[1])
          => std = Rat(0, 1)
    /\ (Len(sample) >= 2 /\ \E i \in DOMAIN sample : sample[i] /= sample[1])
          => std.k = "num" /\ std.n > 0

\* C8 witness: after a fit with mean and std both other than 0 and 1, an
\* entry that norm changed has come back from denorm.
C8_Witness ==
    /\ Len(sample) >= 2
    /\ mean /= Rat(0, 1)
    /\ std.k = "num" /\ std.n /= 0 /\ std /= Rat(1, 1)
    /\ normed /= Unset /\ normed /= x
    /\ denormed = x
====
